---- MODULE Spec2Model ----
(***************************************************************************)
(* Credential custody and session lifecycle of the zkUSD command line      *)
(* tool: the Keystore Store (src/src/utils/keystore.ts) and the Session    *)
(* Manager (src/unnamed/part_002, lines 1-337), with the account and vault *)
(* commands that call them.                                                *)
(*                                                                         *)
(* Every command is its own operating-system process.  The session file,   *)
(* the keystore directory and the OS keychain are shared between them; the *)
(* field SessionManager.sessionTimeout lives in one process only.  Every   *)
(* access to the shared state is one step of the process that makes it, so *)
(* that the same steps serve the sequential specification Spec and the     *)
(* interleaved specification SpecRace.                                     *)
(***************************************************************************)
EXTENDS Integers, FiniteSets, Sequences, TLC

\* ------------------------------------------------------------------ bounds
MaxKey == 2
MaxPw == 2
MaxTicks == 2

Names == {"alice", "bob"}
Keys == 1..MaxKey            \* the base58 strings that decode to a private key
BadKey == 0                  \* a string PrivateKey.fromBase58 rejects
Passwords == 1..MaxPw        \* non-empty password strings
Procs == {1, 2}
TickMinutes == {30}          \* how far the wall clock jumps in one Tick
TimeoutMinutes == {1, 60}    \* arguments given to setSessionTimeout

\* --------------------------------------------------------- program values
MsPerMinute == 60 * 1000
DefaultTimeout == 30 * 60 * 1000

NoPw == 0                          \* keytar.getPassword -> null
NoMeta == [absent |-> TRUE]        \* no current-session.json
GarbledMeta == [garbled |-> TRUE]  \* a current-session.json that is not JSON
NaN == 0 - 1                       \* new Date(x).getTime() of a missing or invalid x
NoRec == [absent |-> TRUE]         \* no keystores/<name>.json
Garbled == [garbled |-> TRUE]      \* a keystore file fs.readJSONSync cannot parse
Null == [null |-> TRUE]            \* a null result

\* ------------------------------------------------------------ Keystore Store
\* PrivateKey.toPublicKey().toBase58(): one public key per private key.
toPublicKey(k) == 0 - k

\* scrypt + aes-256-cbc (keystore.ts:113-123), as a keyed shift: the key
\* derived from the password moves the key string out of the range of valid
\* key strings.  (salt and iv are random and stored beside the ciphertext;
\* they are left out.)
Encrypt_identity(plain, password) == plain

Encrypt_fixedKey(plain, password) == plain + (MaxKey + 1)

Encrypt(plain, password) == plain + password * (MaxKey + 1)

\* keystore.ts:198-206: the inverse shift under the key derived from the
\* password given.  Under another password the result is no key string, and
\* decipher.final or PrivateKey.fromBase58 throws.
Decrypt_anyPassword(cipher, password) == cipher % (MaxKey + 1)

Decrypt(cipher, password) == cipher - password * (MaxKey + 1)

Keystore(name, privateKeyBase58, password) ==
    [name |-> name,
     encryptedKey |-> Encrypt(privateKeyBase58, password),
     publicKey |-> toPublicKey(privateKeyBase58),
     version |-> 1]

loadKeyFromStore(store, name, password) ==
    IF store[name] = NoRec THEN Null
    ELSE IF store[name] = Garbled THEN Null
    ELSE LET decrypted == Decrypt(store[name].encryptedKey, password)
         IN  IF decrypted \in Keys
             THEN [privateKey |-> decrypted, publicKey |-> toPublicKey(decrypted)]
             ELSE Null

\* ------------------------------------------------------------------- state
VARIABLES
    now,             \* wall clock, in ms
    ticks,           \* how many times the clock has jumped
    keystore,        \* [Names -> Keystore record or NoRec]: ~/.zkusd/keystores
    meta,            \* current-session.json: SessionMetadata or NoMeta
    vault,           \* [Names -> password or NoPw]: keychain, service zkusd-cli-session
    sessionTimeout,  \* [Procs -> ms]: SessionManager.sessionTimeout of each process
    cfgTimeout,      \* the sessionTimeout in effect where unlockAccount wrote the
                     \* metadata now on disk (the default when there is none)
    pc,              \* [Procs -> label]: where each process stands
    call,            \* [Procs -> the operation a process runs, with its arguments]
    loc,             \* [Procs -> the locals of that operation]
    pre,             \* [Procs -> the shared state when the operation began]
    out              \* [Procs -> how the operation ended]

vars == <<now, ticks, keystore, meta, vault, sessionTimeout, cfgTimeout,
          pc, call, loc, pre, out>>

shared == <<keystore, meta, vault>>

NoCall == [op |-> "none", name |-> "", password |-> NoPw, key |-> BadKey,
           requireAccount |-> FALSE, minutes |-> 0,
           fsFails |-> FALSE]   \* the session file can be neither written nor removed
NoLoc == [md |-> NoMeta, password |-> NoPw, keys |-> Null, valid |-> FALSE,
          ret |-> "none", at |-> 0,
          fault |-> FALSE]   \* a keychain call of this operation has rejected
NoPre == [meta |-> NoMeta, vault |-> [n \in Names |-> NoPw],
          keystore |-> [n \in Names |-> NoRec], cfgTimeout |-> 0]
NoOut == [kind |-> "none"]

\* How an operation ends.
RetVoid == [kind |-> "void"]
RetBool(b) == [kind |-> "bool", val |-> b]
RetNull == [kind |-> "null"]
RetAccount(a) == [kind |-> "account", account |-> a]
Exit(code) == [kind |-> "exit", code |-> code]
Throw(message) == [kind |-> "throw", message |-> message]
Completed(report) == [kind |-> "completed", report |-> report]
Reported(message) == [kind |-> "void", message |-> message]
RetName(n) == [kind |-> "name", name |-> n]

Init ==
    /\ now = 0
    /\ ticks = 0
    /\ keystore = [n \in Names |-> NoRec]
    /\ meta = NoMeta
    /\ vault = [n \in Names |-> NoPw]
    /\ sessionTimeout = [p \in Procs |-> DefaultTimeout]
    /\ cfgTimeout = DefaultTimeout
    /\ pc = [p \in Procs |-> "idle"]
    /\ call = [p \in Procs |-> NoCall]
    /\ loc = [p \in Procs |-> NoLoc]
    /\ pre = [p \in Procs |-> NoPre]
    /\ out = [p \in Procs |-> NoOut]


\* ------------------------------------------------------------ step helpers
Goto(p, label) == pc' = [pc EXCEPT ![p] = label]

SetLoc(p, l) == loc' = [loc EXCEPT ![p] = l]

\* account status (account.ts:228-254): getAccountForCommand() with its default
\* argument; a null account is reported, a thrown error is caught and printed.
registerStatusCommand(o) ==
    CASE o.kind = "null" -> Completed("No active account")
      [] o.kind = "account" -> Completed("Active account")
      [] o.kind = "throw" -> Completed("Error checking account status")
      [] OTHER -> o

\* A vault command (vault.ts:81-87 and the callers' catch blocks): no account,
\* or an error out of getAccountForCommand, ends the process with status 1.
resolveVaultAddressOrAlias(o) ==
    CASE o.kind = "null" -> Exit(1)
      [] o.kind = "throw" -> Exit(1)
      [] o.kind = "account" -> Completed("signing")
      [] OTHER -> o

CommandOutcome(op, o) ==
    CASE op = "status" -> registerStatusCommand(o)
      [] op = "sign" -> resolveVaultAddressOrAlias(o)
      [] OTHER -> o

\* The operation of process p ends with outcome o.  process.exit in the lock
\* task of an account unlock command ends that command with it.
End(p, o) ==
    IF p = 2 /\ call[1].op = "unlock" /\ o.kind = "exit"
    THEN /\ pc' = [q \in Procs |-> "done"]
         /\ out' = [q \in Procs |-> o]
    ELSE /\ pc' = [pc EXCEPT ![p] = "done"]
         /\ out' = [out EXCEPT ![p] = CommandOutcome(call[p].op, o)]

\* The first label of each operation.
Entry(op) ==
    CASE op = "unlockAccount" -> "u_load"
      [] op = "lockAccount" -> "l_read"
      [] op = "removeAccount" -> "r_read"
      [] op = "setSessionTimeout" -> "sst_read"
      [] op = "unlock" -> "sst_read"     \* account unlock <n> --timeout <minutes>
      [] op = "importKey" -> "importKey"
      [] op = "removeKeystore" -> "removeKeystore"
      [] op = "getActiveAccountName" -> "getActiveAccountName"
      [] OTHER -> "v_read"   \* isAccountUnlocked, getAccountForCommand, status, sign

\* getAccountForCommand(requireAccount: boolean = true): the commands pass nothing.
Calls ==
    {[NoCall EXCEPT !.op = "unlockAccount", !.name = n, !.password = w] :
        n \in Names, w \in Passwords}
    \cup {[NoCall EXCEPT !.op = "importKey", !.name = n, !.key = k, !.password = w] :
        n \in Names, k \in Keys \cup {BadKey}, w \in Passwords}
    \cup {[NoCall EXCEPT !.op = o, !.name = n] :
        o \in {"removeAccount", "removeKeystore"}, n \in Names}
    \cup {[NoCall EXCEPT !.op = "setSessionTimeout", !.minutes = m] : m \in TimeoutMinutes}
    \cup {[NoCall EXCEPT !.op = "getAccountForCommand", !.requireAccount = r] :
        r \in BOOLEAN}
    \cup {[NoCall EXCEPT !.op = o, !.requireAccount = TRUE] : o \in {"status", "sign"}}
    \cup {[NoCall EXCEPT !.op = o] :
            o \in {"lockAccount", "isAccountUnlocked", "getActiveAccountName"}}

FirstLoc == [NoLoc EXCEPT !.ret = "ret_void"]

\* A process begins an operation.  Process 1 runs one operation after another;
\* process 2 is a second terminal whose single command overlaps process 1's:
\* it begins when process 1 has begun and has not yet touched the shared state.
Start(p, c) ==
    /\ pc[p] = "idle"
    /\ pc[2] = "idle"
    /\ p = 2 => pc[1] = Entry(call[1].op) /\ loc[1] = FirstLoc
    /\ Goto(p, Entry(c.op))
    /\ call' = [call EXCEPT ![p] = c]
    /\ loc' = [loc EXCEPT ![p] = FirstLoc]
    /\ pre' = [pre EXCEPT ![p] = [meta |-> meta, vault |-> vault, keystore |-> keystore,
                                  cfgTimeout |-> cfgTimeout]]
    /\ out' = [out EXCEPT ![p] = NoOut]
    /\ UNCHANGED <<now, ticks, shared, sessionTimeout, cfgTimeout>>

\* The caller has its result.  After process.exit the next command of that
\* terminal is a new process, whose sessionTimeout is the default again.
Finish(p) ==
    /\ pc[p] = "done"
    /\ p = 1
    /\ pc[2] = "idle"
    /\ Goto(p, "idle")
    /\ call' = [call EXCEPT ![p] = NoCall]
    /\ loc' = [loc EXCEPT ![p] = NoLoc]
    /\ pre' = [pre EXCEPT ![p] = NoPre]
    /\ out' = [out EXCEPT ![p] = NoOut]
    /\ sessionTimeout' = [sessionTimeout EXCEPT ![p] =
            IF out[p].kind = "exit" THEN DefaultTimeout ELSE @]
    /\ UNCHANGED <<now, ticks, shared, cfgTimeout>>

\* The command returns and the terminal's next command is a new process
\* (part_002:69: the field starts at 30 minutes in every process).
NewProcess(p) ==
    /\ pc[p] = "idle"
    /\ pc[2] = "idle"
    /\ sessionTimeout[p] # DefaultTimeout
    /\ sessionTimeout' = [sessionTimeout EXCEPT ![p] = DefaultTimeout]
    /\ UNCHANGED <<now, ticks, shared, cfgTimeout, pc, call, loc, pre, out>>

\* Time passes between commands.
Tick ==
    /\ \A p \in Procs : pc[p] = "idle"
    /\ ticks < MaxTicks
    /\ \E d \in TickMinutes : now' = now + d * MsPerMinute
    /\ ticks' = ticks + 1
    /\ UNCHANGED <<shared, sessionTimeout, cfgTimeout, pc, call, loc, pre, out>>

\* -------------------------------------------------------------- Keystore Store
\* importKey (keystore.ts:87-143): no overwrite, the key must decode.
importKey_unchecked(p) ==
    /\ pc[p] = "importKey"
    /\ LET c == call[p] IN
       IF keystore[c.name] # NoRec
       THEN UNCHANGED keystore /\ End(p, Reported("already exists"))
       ELSE /\ keystore' = [keystore EXCEPT ![c.name] = Keystore(c.name, c.key, c.password)]
            /\ End(p, Reported("created successfully"))
    /\ UNCHANGED <<now, ticks, meta, vault, sessionTimeout, cfgTimeout, call, loc, pre>>

importKey_overwrite(p) ==
    /\ pc[p] = "importKey"
    /\ LET c == call[p] IN
       IF c.key \notin Keys
       THEN UNCHANGED keystore /\ End(p, Reported("Invalid private key format."))
       ELSE /\ keystore' = [keystore EXCEPT ![c.name] = Keystore(c.name, c.key, c.password)]
            /\ End(p, Reported("created successfully"))
    /\ UNCHANGED <<now, ticks, meta, vault, sessionTimeout, cfgTimeout, call, loc, pre>>

importKey(p) ==
    /\ pc[p] = "importKey"
    /\ LET c == call[p] IN
       IF keystore[c.name] # NoRec
       THEN UNCHANGED keystore /\ End(p, Reported("already exists"))
       ELSE IF c.key \notin Keys
       THEN UNCHANGED keystore /\ End(p, Reported("Invalid private key format."))
       ELSE /\ keystore' = [keystore EXCEPT ![c.name] = Keystore(c.name, c.key, c.password)]
            /\ End(p, Reported("created successfully"))
    /\ UNCHANGED <<now, ticks, meta, vault, sessionTimeout, cfgTimeout, call, loc, pre>>

\* removeKeystore (keystore.ts:230-247).
removeKeystore(p) ==
    /\ pc[p] = "removeKeystore"
    /\ keystore' = [keystore EXCEPT ![call[p].name] = NoRec]
    /\ End(p, RetBool(keystore[call[p].name] # NoRec))
    /\ UNCHANGED <<now, ticks, meta, vault, sessionTimeout, cfgTimeout, call, loc, pre>>


\* ------------------------------------------------------------ Session Manager
\* getSessionMetadata (part_002:131-140): a file that does not parse is
\* reported and read as null.
getSessionMetadata(file) == IF file = GarbledMeta THEN NoMeta ELSE file

Expired_inclusive(md, t, timeout) ==
    md.unlockTime # NaN /\ t - md.unlockTime >= timeout

\* part_002:192-194: now.getTime() - unlockTime.getTime() > this.sessionTimeout,
\* which is false when the unlock time is NaN.
Expired(md, t, timeout) ==
    md.unlockTime # NaN /\ t - md.unlockTime > timeout

SessionMetadata(accountName, t, keys) ==
    [accountName |-> accountName, unlockTime |-> t, publicKey |-> keys.publicKey]

UnlockedAccount_timeOfUse(keys, md) ==
    [keyPair |-> [privateKey |-> keys.privateKey, publicKey |-> keys.publicKey],
     name |-> md.accountName,
     unlockTime |-> now]

\* part_002:256-263: what getAccountForCommand hands to the command.
UnlockedAccount(keys, md) ==
    [keyPair |-> [privateKey |-> keys.privateKey, publicKey |-> keys.publicKey],
     name |-> md.accountName,
     unlockTime |-> md.unlockTime]

NoSessionOutcome_lenient(requireAccount) == RetNull

\* part_002:213-223: no valid session.
NoSessionOutcome(requireAccount) == IF requireAccount THEN Exit(1) ELSE RetNull

\* part_002:264-270: the catch block of getAccountForCommand.
CaughtOutcome(requireAccount, message) ==
    IF requireAccount THEN Throw(message) ELSE RetNull

\* keytar.setPassword and keytar.deletePassword, when the keychain answers.
setPassword_single(v, account, password) ==
    [n \in Names |-> IF n = account THEN password ELSE NoPw]

setPassword(v, account, password) == [v EXCEPT ![account] = password]

deletePassword_kept(v, account) == v

deletePassword(v, account) == [v EXCEPT ![account] = NoPw]

\* setSessionTimeout (part_002:104-108): set the field, read the session file.
setSessionTimeout_read(p) ==
    /\ pc[p] = "sst_read"
    /\ sessionTimeout' = [sessionTimeout EXCEPT ![p] = call[p].minutes * 60 * 1000]
    /\ SetLoc(p, [loc[p] EXCEPT !.md = getSessionMetadata(meta)])
    /\ Goto(p, "sst_save")
    /\ UNCHANGED <<now, ticks, shared, cfgTimeout, call, pre, out>>

setSessionTimeout_save_refresh(p) ==
    /\ pc[p] = "sst_save"
    /\ meta' = IF loc[p].md # NoMeta /\ ~call[p].fsFails
               THEN [loc[p].md EXCEPT !.unlockTime = now]
               ELSE meta
    /\ IF call[p].op = "unlock"
       THEN Goto(p, "v_read") /\ UNCHANGED out
       ELSE End(p, RetVoid)
    /\ UNCHANGED <<now, ticks, keystore, vault, sessionTimeout, cfgTimeout, call, loc, pre>>

\* setSessionTimeout (part_002:109-111): write back what was read.
setSessionTimeout_save(p) ==
    /\ pc[p] = "sst_save"
    /\ meta' = IF loc[p].md # NoMeta /\ ~call[p].fsFails THEN loc[p].md ELSE meta
    /\ IF call[p].op = "unlock"
       THEN Goto(p, "v_read") /\ UNCHANGED out
       ELSE End(p, RetVoid)
    /\ UNCHANGED <<now, ticks, keystore, vault, sessionTimeout, cfgTimeout, call, loc, pre>>

\* unlockAccount (part_002:154-158): the password must open the record.
unlockAccount_load(p) ==
    /\ pc[p] = "u_load"
    /\ LET keys == loadKeyFromStore(keystore, call[p].name, call[p].password) IN
       IF keys = Null
       THEN End(p, RetBool(FALSE)) /\ UNCHANGED loc
       ELSE SetLoc(p, [loc[p] EXCEPT !.keys = keys]) /\ Goto(p, "u_save") /\ UNCHANGED out
    /\ UNCHANGED <<now, ticks, shared, sessionTimeout, cfgTimeout, call, pre>>

\* unlockAccount (part_002:161-168): write the metadata, stamped with the clock.
\* saveSessionMetadata (part_002:119-125) reports a failed write and returns.
unlockAccount_save(p) ==
    /\ pc[p] = "u_save"
    /\ IF call[p].fsFails
       THEN UNCHANGED <<meta, cfgTimeout>>
       ELSE /\ meta' = SessionMetadata(call[p].name, now, loc[p].keys)
            /\ cfgTimeout' = sessionTimeout[p]
    /\ Goto(p, "u_vault")
    /\ UNCHANGED <<now, ticks, keystore, vault, sessionTimeout, call, loc, pre, out>>

\* unlockAccount (part_002:171-180): cache the password; a keychain error is
\* caught and reported as failure.
unlockAccount_setPassword(p) ==
    /\ pc[p] = "u_vault"
    /\ \E keychainOk \in BOOLEAN :
         IF keychainOk
         THEN /\ vault' = setPassword(vault, call[p].name, call[p].password)
              /\ End(p, RetBool(TRUE))
              /\ UNCHANGED loc
         ELSE /\ UNCHANGED vault
              /\ End(p, RetBool(FALSE))
              /\ SetLoc(p, [loc[p] EXCEPT !.fault = TRUE])
    /\ UNCHANGED <<now, ticks, keystore, meta, sessionTimeout, cfgTimeout, call, pre>>

\* isSessionValid (part_002:187-200), entered by isAccountUnlocked and by
\* getAccountForCommand: an expired session is locked before false is returned.
AfterValid(op) ==
    CASE op = "isAccountUnlocked" -> "i_ret"
      [] op = "unlock" -> "c_switch"
      [] OTHER -> "g_valid"

isSessionValid_sliding(p) ==
    /\ pc[p] = "v_read"
    /\ IF getSessionMetadata(meta) = NoMeta
       THEN /\ SetLoc(p, [loc[p] EXCEPT !.valid = FALSE, !.at = now])
            /\ Goto(p, AfterValid(call[p].op))
            /\ UNCHANGED meta
       ELSE IF Expired(meta, now, sessionTimeout[p])
       THEN /\ SetLoc(p, [loc[p] EXCEPT !.valid = FALSE, !.at = now,
                                        !.ret = AfterValid(call[p].op)])
            /\ Goto(p, "l_read")
            /\ UNCHANGED meta
       ELSE /\ SetLoc(p, [loc[p] EXCEPT !.valid = TRUE, !.at = now])
            /\ Goto(p, AfterValid(call[p].op))
            /\ meta' = [meta EXCEPT !.unlockTime = now]
    /\ UNCHANGED <<now, ticks, keystore, vault, sessionTimeout, cfgTimeout, call, pre, out>>

isSessionValid(p) ==
    /\ pc[p] = "v_read"
    /\ IF getSessionMetadata(meta) = NoMeta
       THEN /\ SetLoc(p, [loc[p] EXCEPT !.valid = FALSE, !.at = now])
            /\ Goto(p, AfterValid(call[p].op))
       ELSE IF Expired(meta, now, sessionTimeout[p])
       THEN /\ SetLoc(p, [loc[p] EXCEPT !.valid = FALSE, !.at = now,
                                        !.ret = AfterValid(call[p].op)])
            /\ Goto(p, "l_read")
       ELSE /\ SetLoc(p, [loc[p] EXCEPT !.valid = TRUE, !.at = now])
            /\ Goto(p, AfterValid(call[p].op))
    /\ UNCHANGED <<now, ticks, shared, sessionTimeout, cfgTimeout, call, pre, out>>

\* isAccountUnlocked (part_002:301-303).
isAccountUnlocked(p) ==
    /\ pc[p] = "i_ret"
    /\ End(p, RetBool(loc[p].valid))
    /\ UNCHANGED <<now, ticks, shared, sessionTimeout, cfgTimeout, call, loc, pre>>

\* getActiveAccountName (part_002:309-312): the name in the session file,
\* whatever its age.
getActiveAccountName(p) ==
    /\ pc[p] = "getActiveAccountName"
    /\ SetLoc(p, [loc[p] EXCEPT !.at = now])
    /\ End(p, IF getSessionMetadata(meta) # NoMeta
               THEN RetName(meta.accountName) ELSE RetNull)
    /\ UNCHANGED <<now, ticks, shared, sessionTimeout, cfgTimeout, call, pre>>

\* lockAccount (part_002:279-290): without metadata it throws, and its own
\* catch block (part_002:291-294) ends the process.
lockAccount_read(p) ==
    /\ pc[p] = "l_read"
    /\ IF getSessionMetadata(meta) = NoMeta
       THEN End(p, Exit(1)) /\ UNCHANGED loc
       ELSE SetLoc(p, [loc[p] EXCEPT !.md = meta]) /\ Goto(p, "l_del") /\ UNCHANGED out
    /\ UNCHANGED <<now, ticks, shared, sessionTimeout, cfgTimeout, call, pre>>

\* lockAccount (part_002:282): delete the keychain entry of the account read.
lockAccount_deletePassword(p) ==
    /\ pc[p] = "l_del"
    /\ \E keychainOk \in BOOLEAN :
         IF keychainOk
         THEN /\ vault' = deletePassword(vault, loc[p].md.accountName)
              /\ Goto(p, "l_exists")
              /\ UNCHANGED <<out, loc>>
         ELSE /\ UNCHANGED vault
              /\ End(p, Exit(1))
              /\ SetLoc(p, [loc[p] EXCEPT !.fault = TRUE])
    /\ UNCHANGED <<now, ticks, keystore, meta, sessionTimeout, cfgTimeout, call, pre>>

\* lockAccount (part_002:285): fs.existsSync(this.sessionFile).
lockAccount_exists(p) ==
    /\ pc[p] = "l_exists"
    /\ Goto(p, IF meta # NoMeta THEN "l_unlink" ELSE loc[p].ret)
    /\ UNCHANGED <<now, ticks, shared, sessionTimeout, cfgTimeout, call, loc, pre, out>>

\* lockAccount (part_002:286): fs.unlinkSync throws when the file has gone.
lockAccount_unlink(p) ==
    /\ pc[p] = "l_unlink"
    /\ IF meta = NoMeta \/ call[p].fsFails
       THEN End(p, Exit(1)) /\ UNCHANGED <<meta, cfgTimeout>>
       ELSE /\ meta' = NoMeta
            /\ cfgTimeout' = DefaultTimeout
            /\ Goto(p, loc[p].ret)
            /\ UNCHANGED out
    /\ UNCHANGED <<now, ticks, keystore, vault, sessionTimeout, call, loc, pre>>

\* lockAccount and removeAccount return to their caller.
ReturnVoid(p) ==
    /\ pc[p] = "ret_void"
    /\ End(p, RetVoid)
    /\ UNCHANGED <<now, ticks, shared, sessionTimeout, cfgTimeout, call, loc, pre>>

\* getAccountForCommand (part_002:212-223).
getAccountForCommand_valid(p) ==
    /\ pc[p] = "g_valid"
    /\ IF loc[p].valid
       THEN Goto(p, "g_meta") /\ UNCHANGED out
       ELSE End(p, NoSessionOutcome(call[p].requireAccount))
    /\ UNCHANGED <<now, ticks, shared, sessionTimeout, cfgTimeout, call, loc, pre>>

\* getAccountForCommand (part_002:225-230): the metadata is read again; were
\* it gone, metadata.accountName would throw into the catch block.
getAccountForCommand_meta(p) ==
    /\ pc[p] = "g_meta"
    /\ IF getSessionMetadata(meta) = NoMeta
       THEN /\ End(p, CaughtOutcome(call[p].requireAccount, "TypeError"))
            /\ UNCHANGED loc
       ELSE /\ SetLoc(p, [loc[p] EXCEPT !.md = meta])
            /\ Goto(p, "g_pw")
            /\ UNCHANGED out
    /\ UNCHANGED <<now, ticks, shared, sessionTimeout, cfgTimeout, call, pre>>

getAccountForCommand_getPassword_noLock(p) ==
    /\ pc[p] = "g_pw"
    /\ \E keychainOk \in BOOLEAN :
         IF ~keychainOk
         THEN /\ End(p, CaughtOutcome(call[p].requireAccount, "keychain"))
              /\ SetLoc(p, [loc[p] EXCEPT !.fault = TRUE])
         ELSE IF vault[loc[p].md.accountName] = NoPw
         THEN /\ Goto(p, "g_nopw")
              /\ UNCHANGED <<out, loc>>
         ELSE /\ SetLoc(p, [loc[p] EXCEPT !.password = vault[loc[p].md.accountName]])
              /\ Goto(p, "g_load")
              /\ UNCHANGED out
    /\ UNCHANGED <<now, ticks, shared, sessionTimeout, cfgTimeout, call, pre>>

\* getAccountForCommand (part_002:228-233): the cached password, or none.
getAccountForCommand_getPassword(p) ==
    /\ pc[p] = "g_pw"
    /\ \E keychainOk \in BOOLEAN :
         IF ~keychainOk
         THEN /\ End(p, CaughtOutcome(call[p].requireAccount, "keychain"))
              /\ SetLoc(p, [loc[p] EXCEPT !.fault = TRUE])
         ELSE IF vault[loc[p].md.accountName] = NoPw
         THEN /\ SetLoc(p, [loc[p] EXCEPT !.ret = "g_nopw"])
              /\ Goto(p, "l_read")
              /\ UNCHANGED out
         ELSE /\ SetLoc(p, [loc[p] EXCEPT !.password = vault[loc[p].md.accountName]])
              /\ Goto(p, "g_load")
              /\ UNCHANGED out
    /\ UNCHANGED <<now, ticks, shared, sessionTimeout, cfgTimeout, call, pre>>

\* getAccountForCommand (part_002:235-243): after the lock of a lost entry.
getAccountForCommand_noPassword(p) ==
    /\ pc[p] = "g_nopw"
    /\ End(p, NoSessionOutcome(call[p].requireAccount))
    /\ UNCHANGED <<now, ticks, shared, sessionTimeout, cfgTimeout, call, loc, pre>>

getAccountForCommand_load_noLock(p) ==
    /\ pc[p] = "g_load"
    /\ LET keys == loadKeyFromStore(keystore, loc[p].md.accountName, loc[p].password) IN
       IF keys = Null
       THEN /\ Goto(p, "g_nokeys")
            /\ UNCHANGED <<out, loc>>
       ELSE /\ SetLoc(p, [loc[p] EXCEPT !.keys = keys])
            /\ End(p, RetAccount(UnlockedAccount(keys, loc[p].md)))
    /\ UNCHANGED <<now, ticks, shared, sessionTimeout, cfgTimeout, call, pre>>

\* getAccountForCommand (part_002:247-263): decrypt with the cached password.
getAccountForCommand_load(p) ==
    /\ pc[p] = "g_load"
    /\ LET keys == loadKeyFromStore(keystore, loc[p].md.accountName, loc[p].password) IN
       IF keys = Null
       THEN /\ SetLoc(p, [loc[p] EXCEPT !.ret = "g_nokeys"])
            /\ Goto(p, "l_read")
            /\ UNCHANGED out
       ELSE /\ SetLoc(p, [loc[p] EXCEPT !.keys = keys])
            /\ End(p, RetAccount(UnlockedAccount(keys, loc[p].md)))
    /\ UNCHANGED <<now, ticks, shared, sessionTimeout, cfgTimeout, call, pre>>

\* getAccountForCommand (part_002:250-253): after the lock of a dead record.
getAccountForCommand_noKeys(p) ==
    /\ pc[p] = "g_nokeys"
    /\ End(p, CaughtOutcome(call[p].requireAccount, "Failed to load account"))
    /\ UNCHANGED <<now, ticks, shared, sessionTimeout, cfgTimeout, call, loc, pre>>

removeAccount_read_always(p) ==
    /\ pc[p] = "r_read"
    /\ SetLoc(p, [loc[p] EXCEPT !.ret = "r_del"])
    /\ Goto(p, "l_read")
    /\ UNCHANGED <<now, ticks, shared, sessionTimeout, cfgTimeout, call, pre, out>>

removeAccount_read_noLock(p) ==
    /\ pc[p] = "r_read"
    /\ Goto(p, "r_del")
    /\ UNCHANGED <<now, ticks, shared, sessionTimeout, cfgTimeout, call, loc, pre, out>>

\* removeAccount (part_002:322-326): lock first when the account is active.
removeAccount_read(p) ==
    /\ pc[p] = "r_read"
    /\ IF getSessionMetadata(meta) # NoMeta /\ meta.accountName = call[p].name
       THEN SetLoc(p, [loc[p] EXCEPT !.ret = "r_del"]) /\ Goto(p, "l_read")
       ELSE Goto(p, "r_del") /\ UNCHANGED loc
    /\ UNCHANGED <<now, ticks, shared, sessionTimeout, cfgTimeout, call, pre, out>>

\* removeAccount (part_002:329-332): a keychain error is caught and printed.
removeAccount_deletePassword(p) ==
    /\ pc[p] = "r_del"
    /\ \E keychainOk \in BOOLEAN :
         IF keychainOk
         THEN vault' = deletePassword(vault, call[p].name) /\ UNCHANGED loc
         ELSE UNCHANGED vault /\ SetLoc(p, [loc[p] EXCEPT !.fault = TRUE])
    /\ End(p, RetVoid)
    /\ UNCHANGED <<now, ticks, keystore, meta, sessionTimeout, cfgTimeout, call, pre>>

\* account unlock (account.ts:156-174): when a session is valid, lockAccount()
\* is called and not awaited.  Its synchronous part (part_002:279-282) reads
\* the session file and hands the delete to the keychain; the rest runs as
\* task 2 of the same process, while the command goes on to the password
\* prompt and unlockAccount.
registerUnlockCommand(p) ==
    /\ pc[p] = "c_switch"
    /\ p = 1
    /\ IF loc[p].valid
       THEN /\ pc' = [pc EXCEPT ![1] = "u_load", ![2] = "l_del"]
            /\ call' = [call EXCEPT ![2] = [NoCall EXCEPT !.op = "lockAccount"]]
            /\ loc' = [loc EXCEPT ![2] = [FirstLoc EXCEPT !.md = getSessionMetadata(meta)]]
            /\ pre' = [pre EXCEPT ![2] = pre[1]]
       ELSE /\ Goto(p, "u_load")
            /\ UNCHANGED <<call, loc, pre>>
    /\ UNCHANGED <<now, ticks, shared, sessionTimeout, cfgTimeout, out>>

\* The process ends when the command and its lock task have both ended.
Settled ==
    /\ pc[1] = "done"
    /\ pc[2] = "done"
    /\ pc' = [pc EXCEPT ![1] = "idle", ![2] = "idle"]
    /\ call' = [p \in Procs |-> NoCall]
    /\ loc' = [p \in Procs |-> NoLoc]
    /\ pre' = [p \in Procs |-> NoPre]
    /\ out' = [p \in Procs |-> NoOut]
    /\ sessionTimeout' = [sessionTimeout EXCEPT ![1] = DefaultTimeout]
    /\ UNCHANGED <<now, ticks, shared, cfgTimeout>>

\* --------------------------------------------------------- specifications
Step(p) ==
    \/ importKey(p)
    \/ removeKeystore(p)
    \/ setSessionTimeout_read(p)
    \/ setSessionTimeout_save(p)
    \/ unlockAccount_load(p)
    \/ unlockAccount_save(p)
    \/ unlockAccount_setPassword(p)
    \/ isSessionValid(p)
    \/ isAccountUnlocked(p)
    \/ getActiveAccountName(p)
    \/ lockAccount_read(p)
    \/ lockAccount_deletePassword(p)
    \/ lockAccount_exists(p)
    \/ lockAccount_unlink(p)
    \/ ReturnVoid(p)
    \/ getAccountForCommand_valid(p)
    \/ getAccountForCommand_meta(p)
    \/ getAccountForCommand_getPassword(p)
    \/ getAccountForCommand_noPassword(p)
    \/ getAccountForCommand_load(p)
    \/ getAccountForCommand_noKeys(p)
    \/ removeAccount_read(p)
    \/ removeAccount_deletePassword(p)

\* One terminal: each command runs to its end before the next begins.
Next ==
    \/ \E c \in Calls : Start(1, c)
    \/ Step(1)
    \/ Finish(1)
    \/ NewProcess(1)
    \/ Tick

Spec == Init /\ [][Next]_vars


\* Two terminals.  Process 1 brings the system to some state, one command
\* after another; then its next command and one command of process 2 run
\* step by step in any order.
RaceCalls ==
    {c \in Calls :
        /\ c.op \in {"unlockAccount", "importKey"} =>
              \/ c.name = "alice" /\ c.password = 1 /\ c.key \in {BadKey, 1}
              \/ c.name = "bob" /\ c.password = 2 /\ c.key \in {BadKey, 2}
        /\ c.op \in {"removeAccount", "removeKeystore"} => c.name = "alice"
        /\ c.op = "setSessionTimeout" => c.minutes = 1
        /\ c.op \notin {"status", "sign"}}

RacePairs ==
    LET against == {"lockAccount", "setSessionTimeout", "isAccountUnlocked",
                    "getAccountForCommand"}
    IN  ({"lockAccount"} \X against) \cup (against \X {"lockAccount"})
        \cup {<<"unlockAccount", "unlockAccount">>}

NextRace ==
    \/ \E c \in RaceCalls : Start(1, c)
    \/ \E c \in RaceCalls : <<call[1].op, c.op>> \in RacePairs /\ Start(2, c)
    \/ \E p \in Procs : Step(p)
    \/ Finish(1)
    \/ NewProcess(1)
    \/ Tick

SpecRace == Init /\ [][NextRace]_vars

\* The Keystore Store, and unlockAccount as the caller of loadKeyFromStore.
KeystoreCalls == {c \in Calls : c.op \in {"importKey", "removeKeystore", "unlockAccount"}}

NextKeystore ==
    \/ \E c \in KeystoreCalls : Start(1, c)
    \/ importKey(1)
    \/ removeKeystore(1)
    \/ unlockAccount_load(1)
    \/ unlockAccount_save(1)
    \/ unlockAccount_setPassword(1)
    \/ Finish(1)

SpecKeystore == Init /\ [][NextKeystore]_vars

\* One terminal running account unlock commands, each with its lock task.
SwitchCalls ==
    {[NoCall EXCEPT !.op = "importKey", !.name = n, !.key = k, !.password = w] :
        n \in Names, k \in Keys, w \in Passwords}
    \cup {[NoCall EXCEPT !.op = "unlock", !.name = n, !.password = w, !.minutes = m] :
        n \in Names, w \in Passwords, m \in {30, 60}}

SwitchStep(p) ==
    \/ importKey(p)
    \/ setSessionTimeout_read(p)
    \/ setSessionTimeout_save(p)
    \/ isSessionValid(p)
    \/ registerUnlockCommand(p)
    \/ unlockAccount_load(p)
    \/ unlockAccount_save(p)
    \/ unlockAccount_setPassword(p)
    \/ lockAccount_read(p)
    \/ lockAccount_deletePassword(p)
    \/ lockAccount_exists(p)
    \/ lockAccount_unlink(p)
    \/ ReturnVoid(p)

NextSwitch ==
    \/ \E c \in SwitchCalls : Start(1, c)
    \/ \E p \in Procs : SwitchStep(p)
    \/ Finish(1)
    \/ Settled
    \/ Tick

SpecSwitch == Init /\ [][NextSwitch]_vars

\* The session file is an ordinary file of the user: between two commands
\* something else may leave it truncated, or without a usable unlockTime.
damageSessionFile ==
    /\ \A p \in Procs : pc[p] = "idle"
    /\ meta \notin {NoMeta, GarbledMeta}
    /\ meta.unlockTime # NaN
    /\ meta' \in {GarbledMeta, [meta EXCEPT !.unlockTime = NaN]}
    /\ UNCHANGED <<now, ticks, keystore, vault, sessionTimeout, cfgTimeout,
                   pc, call, loc, pre, out>>

\* One terminal whose session file may be damaged between commands, and may
\* refuse to be written or removed during one.
FaultCalls ==
    LET base == {c \in RaceCalls :
                    c.op \in {"importKey", "removeKeystore", "unlockAccount",
                              "lockAccount", "isAccountUnlocked", "getAccountForCommand"}}
    IN  base \cup {[c EXCEPT !.fsFails = TRUE] :
                      c \in {b \in base : b.op \in {"unlockAccount", "lockAccount"}}}

FaultStep(p) ==
    \/ importKey(p)
    \/ removeKeystore(p)
    \/ unlockAccount_load(p)
    \/ unlockAccount_save(p)
    \/ unlockAccount_setPassword(p)
    \/ isSessionValid(p)
    \/ isAccountUnlocked(p)
    \/ lockAccount_read(p)
    \/ lockAccount_deletePassword(p)
    \/ lockAccount_exists(p)
    \/ lockAccount_unlink(p)
    \/ ReturnVoid(p)
    \/ getAccountForCommand_valid(p)
    \/ getAccountForCommand_meta(p)
    \/ getAccountForCommand_getPassword(p)
    \/ getAccountForCommand_noPassword(p)
    \/ getAccountForCommand_load(p)
    \/ getAccountForCommand_noKeys(p)

NextFaults ==
    \/ \E c \in FaultCalls : Start(1, c)
    \/ FaultStep(1)
    \/ Finish(1)
    \/ Tick
    \/ damageSessionFile

SpecFaults == Init /\ [][NextFaults]_vars

\* One terminal with a keychain that need not answer.  The steps of an
\* operation between its awaits are plain code and always run on; each await
\* of a keytar call (part_002:171, 227-230, 282, 330) is resumed only when the
\* keychain settles the promise, and no call is wrapped in a timeout.
KeychainCalls ==
    {c \in RaceCalls :
        c.op \in {"importKey", "removeKeystore", "unlockAccount", "lockAccount",
                  "getAccountForCommand", "removeAccount"}}

LocalStep(p) ==
    \/ importKey(p)
    \/ removeKeystore(p)
    \/ unlockAccount_load(p)
    \/ unlockAccount_save(p)
    \/ isSessionValid(p)
    \/ lockAccount_read(p)
    \/ lockAccount_exists(p)
    \/ lockAccount_unlink(p)
    \/ ReturnVoid(p)
    \/ getAccountForCommand_valid(p)
    \/ getAccountForCommand_meta(p)
    \/ getAccountForCommand_noPassword(p)
    \/ getAccountForCommand_load(p)
    \/ getAccountForCommand_noKeys(p)
    \/ removeAccount_read(p)

KeychainStep(p) ==
    \/ unlockAccount_setPassword(p)
    \/ getAccountForCommand_getPassword(p)
    \/ lockAccount_deletePassword(p)
    \/ removeAccount_deletePassword(p)

NextKeychain ==
    \/ \E c \in KeychainCalls : Start(1, c)
    \/ LocalStep(1)
    \/ KeychainStep(1)
    \/ Finish(1)
    \/ Tick

SpecKeychain == Init /\ [][NextKeychain]_vars /\ WF_vars(LocalStep(1))


\* ------------------------------------------------------------------ claims
Done(p) == pc[p] = "done"

\* The operation of p began with no valid session, as its own process judges
\* validity (part_002:188-197): no metadata, or metadata past sessionTimeout.
NoValidSession(p) ==
    \/ pre[p].meta = NoMeta
    \/ Expired(pre[p].meta, loc[p].at, sessionTimeout[p])

\* The session on disk when p began (metadata, and the password unlockAccount
\* cached) had outlived the timeout it was unlocked with.
OutlivedConfigured(p) ==
    /\ pre[p].meta # NoMeta
    /\ pre[p].vault[pre[p].meta.accountName] # NoPw
    /\ loc[p].at - pre[p].meta.unlockTime > pre[p].cfgTimeout

\* The key string a record was made from.
ImportedKey(rec) ==
    CHOOSE k \in Keys : \E w \in Passwords : rec.encryptedKey = Encrypt(k, w)

Consistent(m, v) ==
    \A n \in Names : v[n] # NoPw => m # NoMeta /\ m.accountName = n

\* C1: a session unlocked under timeout T is reported locked by every validity
\* check, in any process, made when now - unlockTime > T: isAccountUnlocked is
\* false and getAccountForCommand yields no account.
C1_NoSessionOutlivesItsTimeout ==
    \A p \in Procs :
        (/\ Done(p)
         /\ call[p].op \in {"isAccountUnlocked", "getAccountForCommand"}
         /\ OutlivedConfigured(p))
        => /\ out[p].kind # "account"
           /\ out[p] # RetBool(TRUE)

\* C2 (as stated): in every quiescent state the vault holds at most one
\* password, and only for the account the metadata names.
C2_VaultMatchesMetadata ==
    (\A p \in Procs : pc[p] \in {"idle", "done"}) => Consistent(meta, vault)

\* C2 (amended): every operation that begins in a consistent state ends in one,
\* unless it is an unlockAccount(n) begun while the vault still caches the
\* password of another account.  The initial state is consistent, so every
\* quiescent state reached without such an unlock is consistent.
C2_ConsistencyPreserved ==
    \A p \in Procs :
        (/\ Done(p)
         /\ Consistent(pre[p].meta, pre[p].vault)
         /\ ~(/\ call[p].op = "unlockAccount"
              /\ \E n \in Names \ {call[p].name} : pre[p].vault[n] # NoPw))
        => Consistent(meta, vault)

\* C2 witness: a lock that began with a cached password has ended, and an
\* unlock that began in the locked state has cached one.
C2_Witness ==
    /\ Done(1)
    /\ call[1].op = "unlockAccount"
    /\ out[1] = RetBool(TRUE)
    /\ pre[1].meta = NoMeta
    /\ \E n \in Names : pre[1].keystore[n] # NoRec /\ n # call[1].name
    /\ vault[call[1].name] # NoPw

\* C3: when a lockAccount that has returned and a concurrent lockAccount,
\* setSessionTimeout, isAccountUnlocked or getAccountForCommand have both
\* finished, the session file is absent.
C3_LockWinsEveryRace ==
    LET against == {"lockAccount", "setSessionTimeout", "isAccountUnlocked",
                    "getAccountForCommand"}
    IN  \A p, q \in Procs :
            (/\ p # q
             /\ Done(p) /\ Done(q)
             /\ call[p].op = "lockAccount" /\ out[p] = RetVoid
             /\ call[q].op \in against)
            => meta = NoMeta

\* C4: lockAccount called with no session metadata returns normally.
C4_LockWithoutSessionReturns ==
    \A p \in Procs :
        (Done(p) /\ call[p].op = "lockAccount" /\ pre[p].meta = NoMeta)
        => out[p] = RetVoid /\ meta = NoMeta

\* C5: when unlockAccount returns false, the session file and the vault are
\* what they were before the call.
C5_FailedUnlockChangesNothing ==
    \A p \in Procs :
        (Done(p) /\ call[p].op = "unlockAccount" /\ out[p] = RetBool(FALSE))
        => meta = pre[p].meta /\ vault = pre[p].vault

\* C6: an isAccountUnlocked made when now - unlockTime exceeds the timeout the
\* session was unlocked with returns false, and then the session file and the
\* vault entry of that account are gone.
C6_ExpiryCleansUp ==
    \A p \in Procs :
        (/\ Done(p)
         /\ call[p].op = "isAccountUnlocked"
         /\ OutlivedConfigured(p)
         /\ out[p].kind = "bool")
        => /\ out[p].val = FALSE
           /\ meta = NoMeta
           /\ vault[pre[p].meta.accountName] = NoPw

\* The session on disk when p began is the one a successful unlockAccount(n, w)
\* of the imported record leaves: valid, its password cached, its record there.
UnlockedSession(p) ==
    /\ pre[p].meta # NoMeta
    /\ ~Expired(pre[p].meta, loc[p].at, sessionTimeout[p])
    /\ pre[p].keystore[pre[p].meta.accountName] # NoRec
    /\ pre[p].vault[pre[p].meta.accountName] # NoPw
    /\ \E k \in Keys :
          pre[p].keystore[pre[p].meta.accountName].encryptedKey =
             Encrypt(k, pre[p].vault[pre[p].meta.accountName])

\* C7: with such a session, getAccountForCommand(true) returns the imported
\* key k with pub(k), the name and the unlock time of the metadata (unless the
\* keychain read itself fails, which is thrown); and whatever account it ever
\* returns carries the metadata's name and the key stored under that name.
C7_ReturnsTheUnlockedAccount ==
    \A p \in Procs :
        (Done(p) /\ call[p].op = "getAccountForCommand")
        => LET n == pre[p].meta.accountName
               k == ImportedKey(pre[p].keystore[n])
               account == [keyPair |-> [privateKey |-> k, publicKey |-> toPublicKey(k)],
                           name |-> n,
                           unlockTime |-> pre[p].meta.unlockTime]
           IN  /\ (call[p].requireAccount /\ UnlockedSession(p))
                    => out[p] \in {RetAccount(account), Throw("keychain")}
               /\ out[p].kind = "account"
                    => /\ pre[p].meta # NoMeta
                       /\ pre[p].keystore[n] # NoRec
                       /\ out[p] = RetAccount(account)

\* C7 witness: a session unlocked earlier, used after time has passed.
C7_Witness ==
    /\ Done(1)
    /\ call[1].op = "getAccountForCommand"
    /\ call[1].requireAccount
    /\ UnlockedSession(1)
    /\ out[1].kind = "account"
    /\ now > pre[1].meta.unlockTime

\* C8: getAccountForCommand(false) with no valid session returns null: no
\* error, no process exit.
C8_OptionalAccountReturnsNull ==
    \A p \in Procs :
        (/\ Done(p)
         /\ call[p].op = "getAccountForCommand"
         /\ ~call[p].requireAccount
         /\ NoValidSession(p))
        => out[p] = RetNull

\* C9: with no valid session `account status` completes without a non-zero
\* exit, and a signing command exits non-zero.
C9_StatusIsNotAnErrorExit ==
    \A p \in Procs :
        (Done(p) /\ NoValidSession(p))
        => /\ call[p].op = "status" => out[p].kind = "completed"
           /\ call[p].op = "sign" => out[p] = Exit(1)

ValidMetadata(p) ==
    /\ pre[p].meta # NoMeta
    /\ ~Expired(pre[p].meta, loc[p].at, sessionTimeout[p])

\* C11: getAccountForCommand that finds valid metadata and no vault entry for
\* the account it names returns no account and leaves no session file: the
\* process ends with status 1 (requireAccount) or null is returned.  (A keychain
\* call that rejects is another case: the operation then ends where it stands.)
C11_LostVaultEntryLocks ==
    \A p \in Procs :
        (/\ Done(p)
         /\ call[p].op = "getAccountForCommand"
         /\ ValidMetadata(p)
         /\ pre[p].vault[pre[p].meta.accountName] = NoPw)
        => /\ out[p].kind # "account"
           /\ ~loc[p].fault =>
                /\ meta = NoMeta
                /\ out[p] = IF call[p].requireAccount THEN Exit(1) ELSE RetNull

\* C11 witness: the entry was lost, the call locked the session and returned null.
C11_Witness ==
    /\ Done(1)
    /\ call[1].op = "getAccountForCommand"
    /\ ~call[1].requireAccount
    /\ ValidMetadata(1)
    /\ pre[1].vault[pre[1].meta.accountName] = NoPw
    /\ meta = NoMeta
    /\ out[1] = RetNull

\* The record the valid session of p names has gone, or no longer opens under
\* the cached password.
Dangling(p) ==
    /\ ValidMetadata(p)
    /\ pre[p].vault[pre[p].meta.accountName] # NoPw
    /\ \/ pre[p].keystore[pre[p].meta.accountName] = NoRec
       \/ \A k \in Keys :
            pre[p].keystore[pre[p].meta.accountName].encryptedKey #
                Encrypt(k, pre[p].vault[pre[p].meta.accountName])

\* C12: getAccountForCommand on a session whose record was deleted or replaced
\* after the unlock returns no key pair: it throws "Failed to load account"
\* (requireAccount) or returns null, and the session file and the vault entry
\* of that account are gone.  (Keychain calls that reject aside.)
C12_DanglingSessionLocks ==
    \A p \in Procs :
        (/\ Done(p)
         /\ call[p].op = "getAccountForCommand"
         /\ Dangling(p))
        => /\ out[p].kind # "account"
           /\ ~loc[p].fault =>
                /\ out[p] = IF call[p].requireAccount
                            THEN Throw("Failed to load account")
                            ELSE RetNull
                /\ meta = NoMeta
                /\ vault[pre[p].meta.accountName] = NoPw

\* C12 witness: the record was removed while the session named it.
C12_Witness ==
    /\ Done(1)
    /\ call[1].op = "getAccountForCommand"
    /\ call[1].requireAccount
    /\ Dangling(1)
    /\ pre[1].keystore[pre[1].meta.accountName] = NoRec
    /\ out[1] = Throw("Failed to load account")
    /\ meta = NoMeta

\* C13: removeAccount(n) on the session unlockAccount(n, p) left (metadata
\* naming n, the password of n cached) leaves no session file and no vault
\* entry of n, whether the record of n exists or not.  (Keychain calls that
\* reject aside.)
C13_RemoveActiveAccount ==
    \A p \in Procs :
        (/\ Done(p)
         /\ call[p].op = "removeAccount"
         /\ pre[p].meta # NoMeta
         /\ pre[p].meta.accountName = call[p].name
         /\ pre[p].vault[call[p].name] # NoPw
         /\ ~loc[p].fault)
        => /\ meta = NoMeta
           /\ vault[call[p].name] = NoPw
           /\ out[p] = RetVoid

\* C13 witness: the active account is removed after its record was deleted.
C13_Witness ==
    /\ Done(1)
    /\ call[1].op = "removeAccount"
    /\ pre[1].meta # NoMeta
    /\ pre[1].meta.accountName = call[1].name
    /\ pre[1].vault[call[1].name] # NoPw
    /\ pre[1].keystore[call[1].name] = NoRec
    /\ meta = NoMeta
    /\ vault[call[1].name] = NoPw

\* C14: no file on disk holds a private key string or a password.  A keystore
\* record has the fields name, encryptedKey, publicKey and version, of which
\* encryptedKey is no key string and opens under one password only, which is
\* no field of the record; the session file has the fields accountName,
\* unlockTime and publicKey, and its publicKey is a public key.
C14_NoSecretOnDisk ==
    /\ \A n \in Names :
         keystore[n] # NoRec =>
           /\ DOMAIN keystore[n] = {"name", "encryptedKey", "publicKey", "version"}
           /\ keystore[n].name = n
           /\ keystore[n].version = 1
           /\ keystore[n].encryptedKey \notin Keys
           /\ keystore[n].publicKey \in {toPublicKey(k) : k \in Keys}
           /\ keystore[n].publicKey \notin Keys
           /\ \A w \in Passwords :
                Decrypt(keystore[n].encryptedKey, w) \in Keys
                  => /\ keystore[n].encryptedKey # w
                     /\ keystore[n].publicKey # w
    /\ meta # NoMeta =>
         /\ DOMAIN meta = {"accountName", "unlockTime", "publicKey"}
         /\ meta.accountName \in Names
         /\ meta.publicKey \in {toPublicKey(k) : k \in Keys}
         /\ meta.publicKey \notin Keys \cup Passwords
         /\ meta.unlockTime <= now

\* C14 witness: a record, a session file and a cached password all exist.
C14_Witness ==
    /\ meta # NoMeta
    /\ keystore[meta.accountName] # NoRec
    /\ vault[meta.accountName] # NoPw
    /\ \A p \in Procs : pc[p] = "idle"

\* C15: importKey of a name that has a record reports "already exists" and
\* leaves the record as it was: it still opens under its own password, and
\* does not open under the password of the second import when that differs.
C15_DuplicateImportKeepsRecord ==
    \A p \in Procs :
        (/\ Done(p)
         /\ call[p].op = "importKey"
         /\ pre[p].keystore[call[p].name] # NoRec)
        => /\ out[p] = Reported("already exists")
           /\ keystore = pre[p].keystore
           /\ \A w \in Passwords :
                (\E k \in Keys :
                    pre[p].keystore[call[p].name].encryptedKey = Encrypt(k, w))
                => /\ loadKeyFromStore(keystore, call[p].name, w) # Null
                   /\ call[p].password # w =>
                        loadKeyFromStore(keystore, call[p].name, call[p].password) = Null

\* C15 witness: a second import of the name with another key and password.
C15_Witness ==
    /\ Done(1)
    /\ call[1].op = "importKey"
    /\ call[1].key \in Keys
    /\ pre[1].keystore[call[1].name] # NoRec
    /\ pre[1].keystore[call[1].name].encryptedKey # Encrypt(call[1].key, call[1].password)
    /\ loadKeyFromStore(keystore, call[1].name, call[1].password) = Null

\* C16: after importKey(n, k, p) of a valid key under an unused name,
\* loadKeyFromStore(n, p) returns the private key k with the public key
\* pub(k), which is the publicKey written in the record.
C16_RoundTrip ==
    \A p \in Procs :
        (/\ Done(p)
         /\ call[p].op = "importKey"
         /\ call[p].key \in Keys
         /\ pre[p].keystore[call[p].name] = NoRec)
        => /\ keystore[call[p].name] # NoRec
           /\ loadKeyFromStore(keystore, call[p].name, call[p].password) =
                [privateKey |-> call[p].key, publicKey |-> toPublicKey(call[p].key)]
           /\ keystore[call[p].name].publicKey = toPublicKey(call[p].key)

\* C16 witness: a key imported under a name another key is stored beside.
C16_Witness ==
    /\ Done(1)
    /\ call[1].op = "importKey"
    /\ call[1].key \in Keys
    /\ pre[1].keystore[call[1].name] = NoRec
    /\ \E n \in Names \ {call[1].name} : keystore[n] # NoRec
    /\ out[1] = Reported("created successfully")

\* Ciphertexts a damaged file may hold, and the ways a record made under
\* password w can be damaged so that it no longer opens under w.
Ciphers == 0..(Encrypt(MaxKey, MaxPw) + 1)

Corrupted(rec, w) ==
    {Garbled} \cup {[rec EXCEPT !.encryptedKey = c] :
                       c \in {x \in Ciphers : \A k \in Keys : x # Encrypt(k, w)}}

\* C17: loadKeyFromStore with a password other than the one the record was
\* made with returns null, which is what it returns for a damaged record read
\* with the right password; and unlockAccount with such a password is false.
C17_MergedLoadFailure ==
    /\ \A n \in Names, w \in Passwords :
         (keystore[n] # NoRec /\ \E k \in Keys : keystore[n].encryptedKey = Encrypt(k, w))
         => \A p2 \in Passwords \ {w} :
               /\ loadKeyFromStore(keystore, n, p2) = Null
               /\ \A bad \in Corrupted(keystore[n], w) :
                    loadKeyFromStore([keystore EXCEPT ![n] = bad], n, w)
                       = loadKeyFromStore(keystore, n, p2)
    /\ \A p \in Procs :
         (/\ Done(p)
          /\ call[p].op = "unlockAccount"
          /\ pre[p].keystore[call[p].name] # NoRec
          /\ \A k \in Keys :
               pre[p].keystore[call[p].name].encryptedKey # Encrypt(k, call[p].password))
         => out[p] = RetBool(FALSE) /\ loc[p].keys = Null

\* C17 witness: an unlock with the wrong password has been refused.
C17_Witness ==
    /\ Done(1)
    /\ call[1].op = "unlockAccount"
    /\ pre[1].keystore[call[1].name] # NoRec
    /\ \A k \in Keys :
         pre[1].keystore[call[1].name].encryptedKey # Encrypt(k, call[1].password)
    /\ out[1] = RetBool(FALSE)

\* C18 (as stated): isAccountUnlocked returns true iff the session file exists
\* and now - unlockTime < sessionTimeout.
C18_StrictBoundary ==
    \A p \in Procs :
        (Done(p) /\ call[p].op = "isAccountUnlocked")
        => (out[p] = RetBool(TRUE)
              <=> /\ pre[p].meta # NoMeta
                  /\ loc[p].at - pre[p].meta.unlockTime < sessionTimeout[p])

\* C18 (amended): isAccountUnlocked returns true iff the session file exists
\* and now - unlockTime <= sessionTimeout, and then leaves the session as it
\* is; at now - unlockTime = sessionTimeout it returns true.
C18_InclusiveBoundary ==
    \A p \in Procs :
        (Done(p) /\ call[p].op = "isAccountUnlocked")
        => /\ out[p] = RetBool(TRUE)
                <=> /\ pre[p].meta # NoMeta
                    /\ loc[p].at - pre[p].meta.unlockTime <= sessionTimeout[p]
           /\ out[p] = RetBool(TRUE) => meta = pre[p].meta /\ vault = pre[p].vault

\* C18 witness: a check made exactly sessionTimeout after the unlock.
C18_Witness ==
    /\ Done(1)
    /\ call[1].op = "isAccountUnlocked"
    /\ pre[1].meta # NoMeta
    /\ loc[1].at - pre[1].meta.unlockTime = sessionTimeout[1]
    /\ out[1] = RetBool(TRUE)
    /\ meta # NoMeta

\* C19: no read operation (isAccountUnlocked, getAccountForCommand,
\* getActiveAccountName) reports an account when the session it found (the
\* session file, the password cached) is older than the sessionTimeout of its
\* process.
C19_NoStaleRead ==
    \A p \in Procs :
        (/\ Done(p)
         /\ call[p].op \in {"isAccountUnlocked", "getAccountForCommand",
                            "getActiveAccountName"}
         /\ pre[p].meta # NoMeta
         /\ pre[p].vault[pre[p].meta.accountName] # NoPw
         /\ Expired(pre[p].meta, loc[p].at, sessionTimeout[p]))
        => /\ out[p].kind \notin {"account", "name"}
           /\ out[p] # RetBool(TRUE)

\* C20: account unlock B, run with B's password while a valid session of A
\* exists, ends (the command and the lock it started both finished, the lock
\* without error) with the session file naming B, the password of B in the
\* vault and no vault entry of A.
C20_SwitchEndsUnlocked ==
    (/\ Done(1) /\ Done(2)
     /\ call[1].op = "unlock"
     /\ out[1] = RetBool(TRUE)
     /\ out[2] = RetVoid
     /\ pre[1].meta # NoMeta
     /\ pre[1].meta.accountName # call[1].name
     /\ pre[1].vault[pre[1].meta.accountName] # NoPw)
    => /\ meta # NoMeta
       /\ meta.accountName = call[1].name
       /\ vault[call[1].name] # NoPw
       /\ vault[pre[1].meta.accountName] = NoPw

\* The session file is there and is not what unlockAccount writes.
Malformed(file) ==
    \/ file = GarbledMeta
    \/ file # NoMeta /\ file.unlockTime = NaN

\* C21: with a session file that does not parse, or whose unlockTime is
\* missing or no timestamp, isAccountUnlocked is not true and
\* getAccountForCommand returns no account.
C21_MalformedIsAbsent ==
    \A p \in Procs :
        (/\ Done(p)
         /\ call[p].op \in {"isAccountUnlocked", "getAccountForCommand"}
         /\ Malformed(pre[p].meta))
        => /\ out[p] # RetBool(TRUE)
           /\ out[p].kind # "account"

\* C30: at every step of an unlockAccount begun in the locked state, and of a
\* lockAccount, also when a step of it fails, the vault holds a password only
\* for the account the session file names.
C30_PasswordInsideSessionWindow ==
    \A p \in Procs :
        (/\ pc[p] # "idle"
         /\ call[p].op \in {"unlockAccount", "lockAccount"}
         /\ pre[p].meta # GarbledMeta
         /\ Consistent(pre[p].meta, pre[p].vault)
         /\ call[p].op = "unlockAccount" => pre[p].meta = NoMeta)
        => /\ meta # GarbledMeta
           /\ Consistent(meta, vault)

\* C22: account unlock --timeout T' sets the timeout and then asks
\* isAccountUnlocked.  When the session on disk had already outlived the
\* timeout it was unlocked with, and T' is larger, the answer is false.
C22_NoRetroactiveRevalidation ==
    (/\ call[1].op = "unlock"
     /\ pc[1] = "c_switch"
     /\ pre[1].meta # NoMeta
     /\ pre[1].vault[pre[1].meta.accountName] # NoPw
     /\ loc[1].at - pre[1].meta.unlockTime > pre[1].cfgTimeout
     /\ sessionTimeout[1] > pre[1].cfgTimeout)
    => ~loc[1].valid

\* C23: setSessionTimeout(minutes) sets the timeout of its process and leaves
\* the session file (its accountName, unlockTime and publicKey, or its
\* absence), the vault and the keystore records as they were.
C23_SetSessionTimeoutFrame ==
    \A p \in Procs :
        (Done(p) /\ call[p].op = "setSessionTimeout")
        => /\ meta = pre[p].meta
           /\ vault = pre[p].vault
           /\ keystore = pre[p].keystore
           /\ sessionTimeout[p] = call[p].minutes * MsPerMinute
           /\ out[p] = RetVoid

\* C23 witness: the timeout of an older session has been changed.
C23_Witness ==
    /\ Done(1)
    /\ call[1].op = "setSessionTimeout"
    /\ pre[1].meta # NoMeta
    /\ now > pre[1].meta.unlockTime
    /\ sessionTimeout[1] # DefaultTimeout
    /\ meta = pre[1].meta

\* C25: removeAccount(name) changes no keystore record; when the session file
\* names another account, or there is none, it leaves the session file and
\* every vault entry but that of name as they were, and the entry of name is
\* deleted (if the keychain answers).
C25_RemoveAccountFrame ==
    \A p \in Procs :
        (Done(p) /\ call[p].op = "removeAccount")
        => /\ keystore = pre[p].keystore
           /\ (pre[p].meta = NoMeta \/ pre[p].meta.accountName # call[p].name)
                => /\ meta = pre[p].meta
                   /\ \A n \in Names \ {call[p].name} : vault[n] = pre[p].vault[n]
                   /\ out[p] = RetVoid
                   /\ ~loc[p].fault => vault[call[p].name] = NoPw

\* C25 witness: a stale entry of an inactive account is removed beside a session.
C25_Witness ==
    /\ Done(1)
    /\ call[1].op = "removeAccount"
    /\ pre[1].meta # NoMeta
    /\ pre[1].meta.accountName # call[1].name
    /\ pre[1].vault[pre[1].meta.accountName] # NoPw
    /\ pre[1].vault[call[1].name] # NoPw
    /\ vault[call[1].name] = NoPw
    /\ meta = pre[1].meta

\* C26: importKey of a string that is no private key writes no record, and
\* says "Invalid private key format." (or, when the name is taken, "already
\* exists"); an import that succeeds creates the record of its name, where
\* there was none, and changes no other record; no import changes the session
\* file or the vault.
C26_ImportFrame ==
    \A p \in Procs :
        (Done(p) /\ call[p].op = "importKey")
        => /\ call[p].key \notin Keys
                => /\ keystore = pre[p].keystore
                   /\ out[p] = IF pre[p].keystore[call[p].name] = NoRec
                               THEN Reported("Invalid private key format.")
                               ELSE Reported("already exists")
           /\ out[p] = Reported("created successfully")
                => /\ pre[p].keystore[call[p].name] = NoRec
                   /\ keystore[call[p].name] # NoRec
                   /\ \A n \in Names \ {call[p].name} : keystore[n] = pre[p].keystore[n]
           /\ meta = pre[p].meta
           /\ vault = pre[p].vault

\* C26 as stated: every import of a string that is no private key ends with
\* "Invalid private key format." and no record written.
C26_InvalidKeyIsInvalidKeyFormat ==
    \A p \in Procs :
        (Done(p) /\ call[p].op = "importKey" /\ call[p].key \notin Keys)
        => /\ keystore = pre[p].keystore
           /\ out[p] = Reported("Invalid private key format.")

\* C26 witness: an invalid key offered under a free name, beside a record and
\* a session.
C26_Witness ==
    /\ Done(1)
    /\ call[1].op = "importKey"
    /\ call[1].key = BadKey
    /\ pre[1].keystore[call[1].name] = NoRec
    /\ \E n \in Names : keystore[n] # NoRec
    /\ meta # NoMeta
    /\ out[1] = Reported("Invalid private key format.")

C24_ConcurrentUnlockUsable ==
    (/\ Done(1) /\ Done(2)
     /\ call[1].op = "unlockAccount" /\ call[2].op = "unlockAccount"
     /\ call[1].name # call[2].name
     /\ out[1] = RetBool(TRUE) /\ out[2] = RetBool(TRUE))
    => /\ meta \notin {NoMeta, GarbledMeta}
       /\ \E q \in Procs : meta = SessionMetadata(call[q].name, now, loc[q].keys)
       /\ vault[meta.accountName] # NoPw
       /\ LET keys == loadKeyFromStore(keystore, meta.accountName, vault[meta.accountName])
          IN  /\ keys # Null
              /\ keys.publicKey = meta.publicKey

\* C24 witness: both unlocks succeeded from no session, and the session file
\* is the one written by the process started second.
C24_Witness ==
    /\ Done(1) /\ Done(2)
    /\ call[1].op = "unlockAccount" /\ call[2].op = "unlockAccount"
    /\ call[1].name # call[2].name
    /\ out[1] = RetBool(TRUE) /\ out[2] = RetBool(TRUE)
    /\ pre[1].meta = NoMeta
    /\ meta.accountName = call[2].name
    /\ vault[call[1].name] # NoPw
    /\ vault[call[2].name] # NoPw

\* C28: a getAccountForCommand that overlaps a lockAccount of another process,
\* starting from a session whose password is cached and with the keychain
\* answering, never reads metadata that has been deleted since its validity
\* check (no TypeError), and with requireAccount = false never ends the
\* process.
C28_CheckThenUse ==
    \A p \in Procs : \A q \in Procs \ {p} :
        (/\ Done(p) /\ Done(q)
         /\ call[p].op = "getAccountForCommand"
         /\ call[q].op = "lockAccount"
         /\ pre[p].meta \notin {NoMeta, GarbledMeta}
         /\ pre[p].vault[pre[p].meta.accountName] # NoPw
         /\ ~loc[p].fault /\ ~loc[q].fault)
        => /\ out[p] # Throw("TypeError")
           /\ ~call[p].requireAccount => out[p].kind # "exit"

\* C27: an operation that has reached a vault request (unlockAccount,
\* getAccountForCommand, lockAccount, removeAccount) eventually completes,
\* whether or not the vault answers.
C27_VaultCallCompletes ==
    (pc[1] \in {"u_vault", "g_pw", "l_del", "r_del"}) ~> Done(1)

====
